---------------------------- MODULE Spec2Model ----------------------------
(***************************************************************************)
(* A model of the chemist C-subset compiler (src/chemist.c, lines 1-856):  *)
(* tokenize -> parse_program -> generate_code, followed by the execution   *)
(* of the emitted x86-64 text from the `start` label.                      *)
(*                                                                         *)
(* Characters are one-character strings, strings of the program are        *)
(* sequences of characters, and positions are 0-based as in the C source.  *)
(***************************************************************************)
EXTENDS Integers, Sequences, FiniteSets, TLC

VARIABLES
    pc,           \* where the process is: lex, parse, gen_*, asm, run, or a final state
    input,        \* char* input (without the terminating NUL); input_size = Len(input)
    pos,          \* size_t pos
    tokens,       \* Token* tokens; token_count = Len(tokens)
    heap_ok,      \* FALSE once tokenize has written past the malloc'ed token array
    token_pos,    \* size_t token_pos
    max_read,     \* the largest token index the parser has read (-1: none)
    ast,          \* the Program node's function list
    freed,        \* the nodes free_ast has passed to free(), in order
    err,          \* the diagnostic the process exited with ("" while none)
    out,          \* FILE* output: the lines emitted so far
    phases,       \* for each line of out, <<function index, phase>> that emitted it
    scope,        \* current_scope->symbols
    stack_size,   \* current_scope->stack_size
    gfi,          \* generate_code: index of `current` in the function list (1-based)
    gsi,          \* generate_code: index of `stmt` in the body (1-based)
    cpu,          \* registers of the running program: rip, rsp, rbp, rax, rdi
    mem,          \* stack memory of the running program (address -> value)
    exit_arg,     \* the argument of the exit system call (-1 while running)
    frames        \* rsp and rbp at the entry of every function not yet returned from

vars == <<pc, input, pos, tokens, heap_ok, token_pos, max_read, ast, freed, err, out,
          phases, scope, stack_size, gfi, gsi, cpu, mem, exit_arg, frames>>

lexvars == <<input, pos, tokens, heap_ok>>
parsevars == <<token_pos, max_read, ast, freed>>
genvars == <<out, phases, scope, stack_size, gfi, gsi>>
runvars == <<cpu, mem, exit_arg, frames>>

(***************************************************************************)
(* Bounds of the model.                                                    *)
(***************************************************************************)
MaxChunks == 3      \* SpecLex: an input is at most this many chunks long
MaxOverrun == 2     \* SpecLex: tokens written past the array before the model stops
MaxStmts == 1       \* Spec: statements in a whole program (exhaustive part)
MaxFuncs == 1       \* Spec: functions in a program (exhaustive part)
StackWords == 8     \* run: 8-byte words of stack below the initial rsp
MaxTail == 5        \* SpecStmt: lexemes after the identifier that starts the statement

(***************************************************************************)
(* Characters (ctype.h in the C locale, restricted to the model alphabet). *)
(***************************************************************************)
NUL == "NUL"
Letters == {"a", "b", "e", "f", "i", "m", "n", "r", "t", "u"}
Digits == {"0", "1", "2", "3", "4", "5", "6", "7", "8", "9"}
Spaces == {" "}
isspace(c) == c \in Spaces
isalpha(c) == c \in Letters
isdigit(c) == c \in Digits
isalnum_letters_only(c) == isalpha(c)
isalnum(c) == isalpha(c) \/ isdigit(c)

KwInt == <<"i", "n", "t">>
KwReturn == <<"r", "e", "t", "u", "r", "n">>
Main == <<"m", "a", "i", "n">>
Start == <<"s", "t", "a", "r", "t">>

\* input[i]: the buffer holds input_size characters and a terminating NUL.
InputAt(inp, i) == IF i < Len(inp) THEN inp[i + 1] ELSE NUL

\* strncmp(&input[p], kw, Len(kw)) == 0
strncmp0(inp, p, kw) == \A k \in 1..Len(kw) : InputAt(inp, p + k - 1) = kw[k]

\* while (pos < input_size && isspace(input[pos])) pos++;
RECURSIVE SkipSpace(_, _)
SkipSpace(inp, p) ==
    IF p < Len(inp) /\ isspace(inp[p + 1]) THEN SkipSpace(inp, p + 1) ELSE p

\* while (isalnum(input[pos])) pos++;
RECURSIVE AlnumRun(_, _)
AlnumRun(inp, p) == IF isalnum(InputAt(inp, p)) THEN AlnumRun(inp, p + 1) ELSE p

\* while (isdigit(input[pos])) pos++;
RECURSIVE DigitRun(_, _)
DigitRun(inp, p) == IF isdigit(InputAt(inp, p)) THEN DigitRun(inp, p + 1) ELSE p

Token(type, value) == [type |-> type, value |-> value]
NoValue == <<>>

Punct(c) ==
    CASE c = ";" -> "TOK_SEMICOLON"
      [] c = "{" -> "TOK_LBRACE"
      [] c = "}" -> "TOK_RBRACE"
      [] c = "(" -> "TOK_LPAREN"
      [] c = ")" -> "TOK_RPAREN"
      [] c = "=" -> "TOK_EQUAL"
      [] OTHER -> "TOK_UNKNOWN"

\* else { token.type = TOK_UNKNOWN; }: pos is left where it is.
UnknownAdvance(p) == p

\* Token next_token(): the token at the cursor and the cursor after it.
next_token(inp, p0) ==
    LET p == SkipSpace(inp, p0) IN
    IF p >= Len(inp) THEN [tok |-> Token("TOK_EOF", NoValue), pos |-> p]
    ELSE IF strncmp0(inp, p, KwInt) /\ ~isalnum(InputAt(inp, p + 3))
        THEN [tok |-> Token("TOK_INT", NoValue), pos |-> p + 3]
    ELSE IF strncmp0(inp, p, KwReturn) /\ ~isalnum(InputAt(inp, p + 6))
        THEN [tok |-> Token("TOK_RETURN", NoValue), pos |-> p + 6]
    ELSE IF isalpha(inp[p + 1])
        THEN LET e == AlnumRun(inp, p)
             IN [tok |-> Token("TOK_IDENTIFIER", SubSeq(inp, p + 1, e)), pos |-> e]
    ELSE IF isdigit(inp[p + 1])
        THEN LET e == DigitRun(inp, p)
             IN [tok |-> Token("TOK_NUMBER", SubSeq(inp, p + 1, e)), pos |-> e]
    ELSE IF Punct(inp[p + 1]) # "TOK_UNKNOWN"
        THEN [tok |-> Token(Punct(inp[p + 1]), NoValue), pos |-> p + 1]
    ELSE [tok |-> Token("TOK_UNKNOWN", NoValue), pos |-> UnknownAdvance(p)]

\* The element of a one-element set (binds an intermediate result by value).
Only(S) == CHOOSE x \in S : TRUE

\* The whole loop of tokenize(): the tokens up to and including TOK_EOF.  A
\* TOK_UNKNOWN token leaves pos unchanged, so the loop returns it forever:
\* hang is TRUE and toks holds the tokens before it.
RECURSIVE tokenize_from(_, _, _)
tokenize_from(inp, p, toks) ==
    Only({ IF r.tok.type = "TOK_EOF"
             THEN [toks |-> Append(toks, r.tok), hang |-> FALSE]
           ELSE IF r.pos = p THEN [toks |-> toks, hang |-> TRUE]
           ELSE tokenize_from(inp, r.pos, Append(toks, r.tok)) :
           r \in {next_token(inp, p)} })

tokenize(inp) == tokenize_from(inp, 0, <<>>)

(***************************************************************************)
(* Parser.  The parser state is [pos, err, rd]: token_pos, the diagnostic  *)
(* it exited with, and the largest token index read so far.  Every         *)
(* operator returns the state unchanged once err is set: exit(1) ends the  *)
(* process at the first error.                                             *)
(***************************************************************************)
Max(a, b) == IF a >= b THEN a ELSE b

Node(type, name, value, sub) ==
    [type |-> type, name |-> name, value |-> value, sub |-> sub]
NoNode == Node("NONE", <<>>, 0, <<>>)

\* tokens[i], recorded as read; past token_count the read is out of bounds.
TokAt(ts, i) == IF i < Len(ts) THEN ts[i + 1] ELSE Token("TOK_OOB", NoValue)
Rd(p, i) == [p EXCEPT !.rd = Max(@, i)]
Fail(p, msg) == [p EXCEPT !.err = msg]

\* void expect(enum TokenType type)
expect(ts, p, type) ==
    IF p.err # "" THEN p
    ELSE IF p.pos >= Len(ts) \/ TokAt(ts, p.pos).type # type
        \* the diagnostic prints tokens[token_pos].type
        THEN Fail(Rd(p, p.pos), "Expected token")
    ELSE [Rd(p, p.pos) EXCEPT !.pos = @ + 1]

DigitVal(c) ==
    CASE c = "0" -> 0 [] c = "1" -> 1 [] c = "2" -> 2 [] c = "3" -> 3
      [] c = "4" -> 4 [] c = "5" -> 5 [] c = "6" -> 6 [] c = "7" -> 7
      [] c = "8" -> 8 [] c = "9" -> 9

\* atoi on a run of decimal digits
RECURSIVE atoi(_)
atoi(s) ==
    IF s = <<>> THEN 0
    ELSE atoi(SubSeq(s, 1, Len(s) - 1)) * 10 + DigitVal(s[Len(s)])

\* Node* parse_number()
parse_number(ts, p) ==
    LET v == atoi(TokAt(ts, p.pos).value)
        q == expect(ts, Rd(p, p.pos), "TOK_NUMBER")
    IN [p |-> q, node |-> Node("NODE_NUMBER", <<>>, v, <<>>)]

\* Node* parse_var_ref()
parse_var_ref(ts, p) ==
    IF TokAt(ts, p.pos).type # "TOK_IDENTIFIER"
    THEN [p |-> Fail(Rd(p, p.pos), "Expected variable name"), node |-> NoNode]
    ELSE [p |-> expect(ts, Rd(p, p.pos), "TOK_IDENTIFIER"),
          node |-> Node("NODE_VAR_REF", TokAt(ts, p.pos).value, 0, <<>>)]

\* Node* parse_call()
parse_call(ts, p) ==
    IF TokAt(ts, p.pos).type # "TOK_IDENTIFIER"
    THEN [p |-> Fail(Rd(p, p.pos), "Expected identifier for function call"),
          node |-> NoNode]
    ELSE LET q1 == expect(ts, Rd(p, p.pos), "TOK_IDENTIFIER")
             q2 == expect(ts, q1, "TOK_LPAREN")
             q3 == expect(ts, q2, "TOK_RPAREN")
         IN [p |-> q3, node |-> Node("NODE_CALL", TokAt(ts, p.pos).value, 0, <<>>)]

\* The expression after `return`, `int x =` and `x =`: the same code in
\* parse_return, parse_var_decl and parse_var_assign.
parse_expr(ts, p) ==
    LET p0 == Rd(p, p.pos) IN
    IF TokAt(ts, p.pos).type = "TOK_NUMBER" THEN parse_number(ts, p0)
    ELSE IF TokAt(ts, p.pos).type = "TOK_IDENTIFIER"
        THEN IF p.pos + 1 < Len(ts) /\ TokAt(ts, p.pos + 1).type = "TOK_LPAREN"
             THEN parse_call(ts, Rd(p0, p.pos + 1))
             ELSE parse_var_ref(ts, IF p.pos + 1 < Len(ts) THEN Rd(p0, p.pos + 1) ELSE p0)
    ELSE [p |-> Fail(p0, "Expected number, variable or function call"),
          node |-> NoNode]

\* Node* parse_return()
parse_return(ts, p) ==
    LET q == expect(ts, p, "TOK_RETURN") IN
    IF q.err # "" THEN [p |-> q, node |-> NoNode]
    ELSE LET e == parse_expr(ts, q)
         IN [p |-> e.p, node |-> Node("NODE_RETURN", <<>>, 0, <<e.node>>)]

\* Node* parse_var_decl()
parse_var_decl(ts, p) ==
    LET q == expect(ts, p, "TOK_INT") IN
    IF q.err # "" THEN [p |-> q, node |-> NoNode]
    ELSE IF TokAt(ts, q.pos).type # "TOK_IDENTIFIER"
        THEN [p |-> Fail(Rd(q, q.pos), "Expected variable name"), node |-> NoNode]
    ELSE LET name == TokAt(ts, q.pos).value
             q1 == expect(ts, Rd(q, q.pos), "TOK_IDENTIFIER")
         IN IF q1.pos < Len(ts) /\ TokAt(ts, q1.pos).type = "TOK_EQUAL"
            THEN LET q2 == expect(ts, Rd(q1, q1.pos), "TOK_EQUAL")
                     e == parse_expr(ts, q2)
                 IN [p |-> e.p, node |-> Node("NODE_VAR_DECL", name, 0, <<e.node>>)]
            ELSE [p |-> IF q1.pos < Len(ts) THEN Rd(q1, q1.pos) ELSE q1,
                  node |-> Node("NODE_VAR_DECL", name, 0, <<>>)]

\* Node* parse_var_assign()
parse_var_assign(ts, p) ==
    IF TokAt(ts, p.pos).type # "TOK_IDENTIFIER"
    THEN [p |-> Fail(Rd(p, p.pos), "Expected variable name"), node |-> NoNode]
    ELSE LET name == TokAt(ts, p.pos).value
             q1 == expect(ts, Rd(p, p.pos), "TOK_IDENTIFIER")
             q2 == expect(ts, q1, "TOK_EQUAL")
         IN IF q2.err # "" THEN [p |-> q2, node |-> NoNode]
            ELSE LET e == parse_expr(ts, q2)
                 IN [p |-> e.p, node |-> Node("NODE_VAR_ASSIGN", name, 0, <<e.node>>)]

\* parse_stmt's if chain without the peek: a statement that begins with an
\* identifier is always taken for a call.
parse_stmt_kind_call_only(ts, p) ==
    IF p.pos >= Len(ts)
    THEN [p |-> Fail(p, "Unexpected end of input"), node |-> NoNode]
    ELSE LET t == TokAt(ts, p.pos).type
             p0 == Rd(p, p.pos)
         IN IF t = "TOK_RETURN" THEN parse_return(ts, p0)
            ELSE IF t = "TOK_INT" THEN parse_var_decl(ts, p0)
            ELSE IF t = "TOK_IDENTIFIER" THEN parse_call(ts, p0)
            ELSE [p |-> Fail(p0, "Expected statement"), node |-> NoNode]

\* The statement kinds before the terminating semicolon (parse_stmt's if chain).
parse_stmt_kind(ts, p) ==
    IF p.pos >= Len(ts)
    THEN [p |-> Fail(p, "Unexpected end of input"), node |-> NoNode]
    ELSE LET t == TokAt(ts, p.pos).type
             p0 == Rd(p, p.pos)
         IN IF t = "TOK_RETURN" THEN parse_return(ts, p0)
            ELSE IF t = "TOK_INT" THEN parse_var_decl(ts, p0)
            ELSE IF t = "TOK_IDENTIFIER"
                THEN IF p.pos + 1 < Len(ts) /\ TokAt(ts, p.pos + 1).type = "TOK_EQUAL"
                     THEN parse_var_assign(ts, Rd(p0, p.pos + 1))
                     ELSE parse_call(ts, IF p.pos + 1 < Len(ts)
                                         THEN Rd(p0, p.pos + 1) ELSE p0)
            ELSE [p |-> Fail(p0, "Expected statement"), node |-> NoNode]

\* parse_stmt without the final expect(TOK_SEMICOLON).
parse_stmt_nosemi(ts, p) ==
    LET s == parse_stmt_kind(ts, p)
    IN [p |-> s.p, node |-> s.node]

\* Node* parse_stmt()
parse_stmt(ts, p) ==
    LET s == parse_stmt_kind(ts, p)
    IN [p |-> expect(ts, s.p, "TOK_SEMICOLON"), node |-> s.node]

\* Node* parse_stmt_list(): the statements up to the next `}`.
RECURSIVE parse_stmt_list_from(_, _, _)
parse_stmt_list_from(ts, p, acc) ==
    IF p.err = "" /\ p.pos < Len(ts) /\ TokAt(ts, p.pos).type # "TOK_RBRACE"
    THEN Only({ parse_stmt_list_from(ts, s.p, Append(acc, s.node)) :
                  s \in {parse_stmt(ts, Rd(p, p.pos))} })
    ELSE [p |-> IF p.err = "" /\ p.pos < Len(ts) THEN Rd(p, p.pos) ELSE p,
          list |-> acc]

parse_stmt_list(ts, p) == parse_stmt_list_from(ts, p, <<>>)

\* Node* parse_function()
parse_function(ts, p) ==
    LET q == expect(ts, p, "TOK_INT") IN
    IF q.err # "" THEN [p |-> q, node |-> NoNode]
    ELSE IF TokAt(ts, q.pos).type # "TOK_IDENTIFIER"
        THEN [p |-> Fail(Rd(q, q.pos), "Expected function name"), node |-> NoNode]
    ELSE LET name == TokAt(ts, q.pos).value
             q1 == expect(ts, Rd(q, q.pos), "TOK_IDENTIFIER")
             q2 == expect(ts, q1, "TOK_LPAREN")
             q3 == expect(ts, q2, "TOK_RPAREN")
             q4 == expect(ts, q3, "TOK_LBRACE")
         IN IF q4.err # "" THEN [p |-> q4, node |-> NoNode]
            ELSE LET b == parse_stmt_list(ts, q4)
                     q5 == expect(ts, b.p, "TOK_RBRACE")
                 IN [p |-> q5, node |-> Node("NODE_FUNCTION", name, 0, b.list)]

\* Node* parse_program(): the functions up to TOK_EOF.
RECURSIVE parse_program_from(_, _, _)
parse_program_from(ts, p, acc) ==
    IF p.err = "" /\ p.pos < Len(ts) /\ TokAt(ts, p.pos).type # "TOK_EOF"
    THEN Only({ parse_program_from(ts, f.p, Append(acc, f.node)) :
                  f \in {parse_function(ts, Rd(p, p.pos))} })
    ELSE [p |-> IF p.err = "" /\ p.pos < Len(ts) THEN Rd(p, p.pos) ELSE p,
          funcs |-> acc]

parse_program(ts) == parse_program_from(ts, [pos |-> 0, err |-> "", rd |-> -1], <<>>)

(***************************************************************************)
(* Scope and symbol table.  A symbol is [name, stack_offset].              *)
(***************************************************************************)
Symbol(name, off) == [name |-> name, stack_offset |-> off]

\* The search that looks at the first symbol only.
InScopeFirstOnly(sc, name) == Len(sc) >= 1 /\ sc[1].name = name

InScope(sc, name) == \E i \in 1..Len(sc) : sc[i].name = name

\* The offset add_variable gives the new symbol: stack_size after += 8.
NewOffset(ss) == ss + 8

\* add_variable without the duplicate check.
add_variable_nodup(sc, ss, name) ==
    [dup |-> FALSE,
     scope |-> Append(sc, Symbol(name, NewOffset(ss))),
     stack_size |-> ss + 8]

\* void add_variable(const char* name): [dup, scope, stack_size]
add_variable(sc, ss, name) ==
    IF InScope(sc, name)
    THEN [dup |-> TRUE, scope |-> sc, stack_size |-> ss]
    ELSE [dup |-> FALSE,
          scope |-> Append(sc, Symbol(name, NewOffset(ss))),
          stack_size |-> ss + 8]

\* get_variable_offset falling back to the first slot instead of exiting.
get_variable_offset_default(sc, name) ==
    IF InScope(sc, name)
    THEN LET i == CHOOSE i \in 1..Len(sc) :
                     sc[i].name = name /\ \A j \in 1..(i - 1) : sc[j].name # name
         IN sc[i].stack_offset
    ELSE 8

\* int get_variable_offset(const char* name): the first match, -1 for the
\* "Undefined variable" exit.
get_variable_offset(sc, name) ==
    IF InScope(sc, name)
    THEN LET i == CHOOSE i \in 1..Len(sc) :
                     sc[i].name = name /\ \A j \in 1..(i - 1) : sc[j].name # name
         IN sc[i].stack_offset
    ELSE -1

(***************************************************************************)
(* Emitted text.  A line is [op, n, s]: the format string, its %d argument *)
(* and its %s argument.  Equal lines are equal text.                       *)
(***************************************************************************)
Line(op, n, s) == [op |-> op, n |-> n, s |-> s]
L0(op) == Line(op, 0, <<>>)
Label(name) == Line("%s:", 0, name)
Call(name) == Line("call %s", 0, name)
MovRaxImm(v) == Line("mov rax, %d", v, <<>>)
Store(off) == Line("mov [rbp - %d], rax", off, <<>>)
Load(off) == Line("mov rax, [rbp - %d]", off, <<>>)
SubRsp(n) == Line("sub rsp, %d", n, <<>>)

Header == << L0("format ELF64 executable 3"), L0("entry start"),
             L0("segment readable executable") >>
PrologueNoLabel(name) == << L0("push rbp"), L0("mov rbp, rsp") >>
Prologue(name) == << Label(name), L0("push rbp"), L0("mov rbp, rsp") >>
TrampolineNoMove == << Label(Start), Call(Main), MovRaxImm(60), L0("syscall") >>
Trampoline == << Label(Start), Call(Main), L0("mov rdi, rax"), MovRaxImm(60),
                 L0("syscall") >>
Footer == << L0("segment readable writable") >>

\* int x = <variable>; with the load taken from the declared slot itself.
InitVarRefSelf(right_offset, offset) == << Load(offset), Store(offset) >>

\* int x = <variable>;  load the source slot, store to the new slot.
InitVarRef(right_offset, offset) == << Load(right_offset), Store(offset) >>

\* int x = f(); with the store emitted ahead of the call.
InitCallStoreFirst(name, offset) == << Store(offset), Call(name) >>

\* int x = f();  call, then store rax to the new slot.
InitCall(name, offset) == << Call(name), Store(offset) >>

\* The initializer code of a declaration (first loop over the body):
\* [err, scope, stack_size, lines] for one statement.
gen_decl(stmt, sc, ss) ==
    IF stmt.type # "NODE_VAR_DECL"
    THEN [err |-> "", scope |-> sc, stack_size |-> ss, lines |-> <<>>]
    ELSE LET a == add_variable(sc, ss, stmt.name) IN
         IF a.dup
         THEN [err |-> "Variable already exists", scope |-> sc, stack_size |-> ss,
               lines |-> <<>>]
         ELSE IF stmt.sub = <<>>
         THEN [err |-> "", scope |-> a.scope, stack_size |-> a.stack_size,
               lines |-> <<>>]
         ELSE LET offset == get_variable_offset(a.scope, stmt.name)
                  r == stmt.sub[1]
                  res(e, ls) == [err |-> e, scope |-> a.scope,
                                 stack_size |-> a.stack_size, lines |-> ls]
              IN CASE r.type = "NODE_NUMBER" ->
                        res("", << MovRaxImm(r.value), Store(offset) >>)
                   [] r.type = "NODE_VAR_REF" ->
                        LET right_offset == get_variable_offset(a.scope, r.name)
                        IN IF right_offset < 0
                           THEN res("Undefined variable", <<>>)
                           ELSE res("", InitVarRef(right_offset, offset))
                   [] r.type = "NODE_CALL" -> res("", InitCall(r.name, offset))
                   [] OTHER -> res("Invalid initialization expression type", <<>>)

\* The epilogue that never restores the stack pointer.
EpilogueNoRestore(ss) == << L0("pop rbp"), L0("ret") >>

\* The epilogue of a return statement.
Epilogue(ss) ==
    (IF ss > 0 THEN << L0("mov rsp, rbp") >> ELSE <<>>) \o << L0("pop rbp"), L0("ret") >>

\* The code of a statement (second loop over the body): [err, lines].
gen_stmt(stmt, sc, ss) ==
    CASE stmt.type = "NODE_RETURN" ->
            IF stmt.sub = <<>>
            THEN [err |-> "Return statement has no expression", lines |-> <<>>]
            ELSE LET e == stmt.sub[1] IN
                 CASE e.type = "NODE_NUMBER" ->
                        [err |-> "", lines |-> << MovRaxImm(e.value) >> \o Epilogue(ss)]
                   [] e.type = "NODE_CALL" ->
                        [err |-> "", lines |-> << Call(e.name) >> \o Epilogue(ss)]
                   [] e.type = "NODE_VAR_REF" ->
                        LET offset == get_variable_offset(sc, e.name)
                        IN IF offset < 0
                           THEN [err |-> "Undefined variable", lines |-> <<>>]
                           ELSE [err |-> "", lines |-> << Load(offset) >> \o Epilogue(ss)]
                   [] OTHER -> [err |-> "Invalid return expression type", lines |-> <<>>]
      [] stmt.type = "NODE_CALL" -> [err |-> "", lines |-> << Call(stmt.name) >>]
      [] stmt.type = "NODE_VAR_ASSIGN" ->
            LET offset == get_variable_offset(sc, stmt.name) IN
            IF offset < 0 THEN [err |-> "Undefined variable", lines |-> <<>>]
            ELSE LET r == stmt.sub[1] IN
                 CASE r.type = "NODE_NUMBER" ->
                        [err |-> "", lines |-> << MovRaxImm(r.value), Store(offset) >>]
                   [] r.type = "NODE_VAR_REF" ->
                        LET right_offset == get_variable_offset(sc, r.name)
                        IN IF right_offset < 0
                           THEN [err |-> "Undefined variable", lines |-> <<>>]
                           ELSE [err |-> "",
                                 lines |-> << Load(right_offset), Store(offset) >>]
                   [] r.type = "NODE_CALL" ->
                        [err |-> "", lines |-> << Call(r.name), Store(offset) >>]
                   [] OTHER -> [err |-> "Invalid assignment expression type",
                                lines |-> <<>>]
      [] OTHER -> [err |-> "", lines |-> <<>>]

(***************************************************************************)
(* Inputs.  Source programs are drawn as trees and written out as text,    *)
(* one space between lexemes; the pipeline starts from the text.           *)
(***************************************************************************)
VarA == <<"a">>
VarB == <<"b">>
FnF == <<"f">>
VarNames == {VarA, VarB}
FuncNames == {Main, FnF}
Callees == {FnF}
LitVals == {5, 7}

Num(v) == Node("NODE_NUMBER", <<>>, v, <<>>)
Var(n) == Node("NODE_VAR_REF", n, 0, <<>>)
CallNode(f) == Node("NODE_CALL", f, 0, <<>>)
Return(e) == Node("NODE_RETURN", <<>>, 0, <<e>>)
Decl(n, init) == Node("NODE_VAR_DECL", n, 0, init)
Assign(n, e) == Node("NODE_VAR_ASSIGN", n, 0, <<e>>)
Func(name, body) == Node("NODE_FUNCTION", name, 0, body)

Exprs == {Num(v) : v \in LitVals} \cup {Var(n) : n \in VarNames}
            \cup {CallNode(f) : f \in Callees}
Returns == {Return(e) : e \in Exprs}
Decls == {Decl(n, <<>>) : n \in VarNames}
            \cup {Decl(n, <<e>>) : n \in VarNames, e \in Exprs}
Assigns == {Assign(n, e) : n \in VarNames, e \in Exprs}
Stmts == Returns \cup Decls \cup Assigns \cup {CallNode(f) : f \in Callees}

\* Programs of exactly n functions with at most budget statements in all.
RECURSIVE ProgramsOf(_, _)
ProgramsOf(n, budget) ==
    IF n = 0 THEN {<<>>}
    ELSE UNION { { <<Func(name, body)>> \o rest :
                     name \in FuncNames, body \in [1..k -> Stmts],
                     rest \in ProgramsOf(n - 1, budget - k) } : k \in 0..budget }

SmallPrograms == UNION { ProgramsOf(n, MaxStmts) : n \in 0..MaxFuncs }

\* The shapes the specification's examples have, over all names and literals:
\* two declarations and a return, alone or after a helper that returns a
\* literal; and a function with declarations before a main with declarations.
Helpers == { Func(FnF, <<Return(Num(v))>>) : v \in LitVals }
DeclDeclReturn == { <<d1, d2, r>> : d1 \in Decls, d2 \in Decls, r \in Returns }
DeclReturn == { <<d, r>> : d \in Decls, r \in Returns }
ExamplePrograms ==
    { <<Func(Main, b)>> : b \in DeclDeclReturn }
    \cup { <<h, Func(Main, b)>> : h \in Helpers, b \in DeclReturn }
    \cup { <<Func(FnF, <<Decl(VarA, <<>>), Decl(VarB, <<Num(v)>>), Return(Var(VarB))>>),
             Func(Main, b)>> : v \in LitVals, b \in DeclReturn }

\* Bodies in which a statement uses a variable before the declaration that
\* follows it, or assigns between two declarations, and a main whose second
\* initializer is a call.
AssignDeclReturn == { <<s, d, r>> : s \in Assigns, d \in Decls, r \in Returns }
DeclAssignDeclReturn ==
    { << Decl(a, <<Num(v)>>), Assign(b, Num(w)), Decl(c, <<Var(d)>>), Return(Var(e)) >> :
        a \in VarNames, b \in VarNames, c \in VarNames, d \in VarNames, e \in VarNames,
        v \in LitVals, w \in LitVals }
DeclCallReturn ==
    { << Decl(a, <<Num(v)>>), Decl(b, <<CallNode(FnF)>>), Return(Var(c)) >> :
        a \in VarNames, b \in VarNames, c \in VarNames, v \in LitVals }
OrderPrograms ==
    { <<Func(Main, b)>> : b \in AssignDeclReturn \cup DeclAssignDeclReturn }
    \cup { <<h, Func(Main, b)>> : h \in Helpers, b \in DeclCallReturn }

Programs == SmallPrograms \cup ExamplePrograms \cup OrderPrograms

DigitChars == <<"0", "1", "2", "3", "4", "5", "6", "7", "8", "9">>
RECURSIVE itoa(_)
itoa(v) == IF v < 10 THEN <<DigitChars[v + 1]>>
           ELSE itoa(v \div 10) \o <<DigitChars[(v % 10) + 1]>>

ExprLexemes(e) ==
    CASE e.type = "NODE_NUMBER" -> << itoa(e.value) >>
      [] e.type = "NODE_VAR_REF" -> << e.name >>
      [] e.type = "NODE_CALL" -> << e.name, <<"(">>, <<")">> >>

StmtLexemes(st) ==
    (CASE st.type = "NODE_RETURN" -> << KwReturn >> \o ExprLexemes(st.sub[1])
       [] st.type = "NODE_VAR_DECL" ->
            << KwInt, st.name >> \o
            (IF st.sub = <<>> THEN <<>> ELSE << <<"=">> >> \o ExprLexemes(st.sub[1]))
       [] st.type = "NODE_VAR_ASSIGN" ->
            << st.name, <<"=">> >> \o ExprLexemes(st.sub[1])
       [] st.type = "NODE_CALL" -> << st.name, <<"(">>, <<")">> >>)
    \o << <<";">> >>

RECURSIVE Flatten(_)
Flatten(ss) == IF ss = <<>> THEN <<>> ELSE Head(ss) \o Flatten(Tail(ss))

BodyLexemes(body) == Flatten([i \in 1..Len(body) |-> StmtLexemes(body[i])])

FuncLexemes(fn) ==
    << KwInt, fn.name, <<"(">>, <<")">>, <<"{">> >> \o BodyLexemes(fn.sub)
        \o << <<"}">> >>

ProgramLexemes(prog) == Flatten([i \in 1..Len(prog) |-> FuncLexemes(prog[i])])

\* The lexemes separated by single spaces.
RECURSIVE Spaced(_)
Spaced(ls) ==
    IF ls = <<>> THEN <<>>
    ELSE IF Len(ls) = 1 THEN ls[1]
    ELSE ls[1] \o <<" ">> \o Spaced(Tail(ls))

SourceOf(prog) == Spaced(ProgramLexemes(prog))
Sources == { SourceOf(prog) : prog \in Programs }

(***************************************************************************)
(* The pipeline: compile() up to the end of generate_code.                 *)
(***************************************************************************)
NoCpu == [rip |-> 0, rsp |-> 0, rbp |-> 0, rax |-> 0, rdi |-> 0]
NoMem == << >>

InitRest ==
    /\ pos = 0 /\ tokens = <<>> /\ heap_ok = TRUE
    /\ token_pos = 0 /\ max_read = -1 /\ ast = <<>> /\ freed = <<>> /\ err = ""
    /\ out = <<>> /\ phases = <<>> /\ scope = <<>> /\ stack_size = 0
    /\ gfi = 0 /\ gsi = 0
    /\ cpu = NoCpu /\ mem = NoMem /\ exit_arg = -1 /\ frames = <<>>

Init == pc = "start" /\ input \in Sources /\ InitRest

\* tokenize(), the whole loop.  Writing more tokens than the input_size
\* entries malloc'ed is a heap overflow: the process dies of it or goes on
\* with a corrupted heap.  A TOK_UNKNOWN token is written forever.
Tokenize ==
    /\ pc = "start"
    /\ LET r == tokenize(input) IN
       IF r.hang
       THEN /\ pc' = "crashed" /\ heap_ok' = FALSE
            /\ tokens' = r.toks /\ pos' = pos
       ELSE /\ tokens' = r.toks
            /\ pos' = Len(input)
            /\ IF Len(r.toks) > Len(input)
               THEN heap_ok' = FALSE /\ pc' \in {"parse", "crashed"}
               ELSE heap_ok' = TRUE /\ pc' = "parse"
    /\ UNCHANGED <<input, err>>
    /\ UNCHANGED parsevars /\ UNCHANGED genvars /\ UNCHANGED runvars

\* The parse step of a compile() that opens the output and writes the header
\* lines before it parses.
ParseAfterHeader ==
    /\ pc = "parse"
    /\ LET r == parse_program(tokens) IN
       /\ token_pos' = r.p.pos
       /\ max_read' = r.p.rd
       /\ err' = r.p.err
       /\ IF r.p.err # "" THEN ast' = <<>> /\ pc' = "exit1"
          ELSE ast' = r.funcs /\ pc' = "gen"
    /\ out' = out \o Header
    /\ phases' = phases \o [i \in 1..Len(Header) |-> <<0, "header">>]
    /\ UNCHANGED <<freed, scope, stack_size, gfi, gsi>>
    /\ UNCHANGED lexvars /\ UNCHANGED runvars

\* token_pos = 0; Node* ast = parse_program();
Parse ==
    /\ pc = "parse"
    /\ LET r == parse_program(tokens) IN
       /\ token_pos' = r.p.pos
       /\ max_read' = r.p.rd
       /\ err' = r.p.err
       /\ IF r.p.err # "" THEN ast' = <<>> /\ pc' = "exit1"
          ELSE ast' = r.funcs /\ pc' = "gen"
    /\ UNCHANGED freed
    /\ UNCHANGED lexvars /\ UNCHANGED genvars /\ UNCHANGED runvars

Emit(lines, fi, ph) ==
    /\ out' = out \o lines
    /\ phases' = phases \o [i \in 1..Len(lines) |-> <<fi, ph>>]

\* The three header lines and init_scope().
GenHeader ==
    /\ pc = "gen"
    /\ Emit(Header, 0, "header")
    /\ scope' = <<>> /\ stack_size' = 0
    /\ gfi' = 1 /\ gsi' = 0
    /\ pc' = "gen_func"
    /\ UNCHANGED err
    /\ UNCHANGED lexvars /\ UNCHANGED parsevars /\ UNCHANGED runvars

\* The scope kept from the previous function.
ResetScopeKeep(sc) == sc

\* The scope a function starts with: the symbols freed, symbol_count = 0.
ResetScope(sc) == <<>>

\* while (current): label, prologue and the reset of the scope.
GenFunction ==
    /\ pc = "gen_func" /\ gfi <= Len(ast)
    /\ Emit(Prologue(ast[gfi].name), gfi, "prologue")
    /\ scope' = ResetScope(scope) /\ stack_size' = 0
    /\ gsi' = 1
    /\ pc' = "gen_decl"
    /\ UNCHANGED <<err, gfi>>
    /\ UNCHANGED lexvars /\ UNCHANGED parsevars /\ UNCHANGED runvars

\* First loop over the body, one statement.
GenDecl ==
    /\ pc = "gen_decl" /\ gsi <= Len(ast[gfi].sub)
    /\ LET r == gen_decl(ast[gfi].sub[gsi], scope, stack_size) IN
       /\ Emit(r.lines, gfi, "init")
       /\ scope' = r.scope /\ stack_size' = r.stack_size
       /\ err' = r.err
       /\ IF r.err # "" THEN pc' = "exit1" /\ gsi' = gsi
          ELSE pc' = "gen_decl" /\ gsi' = gsi + 1
    /\ UNCHANGED gfi
    /\ UNCHANGED lexvars /\ UNCHANGED parsevars /\ UNCHANGED runvars

\* The stack adjustment emitted whatever the frame size is.
FrameLinesAlways(ss) == << SubRsp(ss) >>

\* if (current_scope->stack_size > 0) sub rsp; stmt = current->body;
FrameLines(ss) == IF ss > 0 THEN << SubRsp(ss) >> ELSE <<>>

GenFrame ==
    /\ pc = "gen_decl" /\ gsi > Len(ast[gfi].sub)
    /\ Emit(FrameLines(stack_size), gfi, "frame")
    /\ gsi' = 1
    /\ pc' = "gen_stmt"
    /\ UNCHANGED <<err, scope, stack_size, gfi>>
    /\ UNCHANGED lexvars /\ UNCHANGED parsevars /\ UNCHANGED runvars

\* Second loop over the body, one statement.
GenStmt ==
    /\ pc = "gen_stmt" /\ gsi <= Len(ast[gfi].sub)
    /\ LET r == gen_stmt(ast[gfi].sub[gsi], scope, stack_size) IN
       /\ Emit(r.lines, gfi, "stmt")
       /\ err' = r.err
       /\ IF r.err # "" THEN pc' = "exit1" /\ gsi' = gsi
          ELSE pc' = "gen_stmt" /\ gsi' = gsi + 1
    /\ UNCHANGED <<scope, stack_size, gfi>>
    /\ UNCHANGED lexvars /\ UNCHANGED parsevars /\ UNCHANGED runvars

\* current = current->next;
GenNextFunction ==
    /\ pc = "gen_stmt" /\ gsi > Len(ast[gfi].sub)
    /\ gfi' = gfi + 1 /\ gsi' = 0
    /\ pc' = "gen_func"
    /\ UNCHANGED <<err, out, phases, scope, stack_size>>
    /\ UNCHANGED lexvars /\ UNCHANGED parsevars /\ UNCHANGED runvars

\* The start: routine, the last segment line, free_scope(); then fclose.
GenTrampoline ==
    /\ pc = "gen_func" /\ gfi > Len(ast)
    /\ out' = out \o Trampoline \o Footer
    /\ phases' = phases \o [i \in 1..Len(Trampoline) |-> <<gfi, "tramp">>]
                        \o [i \in 1..Len(Footer) |-> <<gfi, "footer">>]
    /\ scope' = <<>> /\ stack_size' = 0
    /\ pc' = "free"
    /\ UNCHANGED <<err, gfi, gsi>>
    /\ UNCHANGED lexvars /\ UNCHANGED parsevars /\ UNCHANGED runvars

(***************************************************************************)
(* free_ast.  A node of the tree is named by its path: <<>> is the Program *)
(* node, <<f>> the f-th function, <<f, s>> its s-th statement and          *)
(* <<f, s, 1>> the expression under that statement.  The operators give    *)
(* the nodes passed to free(), in the order of the calls.                  *)
(***************************************************************************)
\* free_ast on the expression of statement s (next is NULL in every
\* expression node, so the calls on it free nothing more).
free_expr(prog, f, s) ==
    IF prog[f].sub[s].sub = <<>> THEN <<>> ELSE << <<f, s, 1>> >>

\* free_ast(stmt) for the s-th statement of function f (NULL past the end).
RECURSIVE free_stmts(_, _, _)
free_stmts(prog, f, s) ==
    IF s > Len(prog[f].sub) THEN <<>>
    ELSE LET t == prog[f].sub[s].type
             self == << <<f, s>> >>
         IN CASE t = "NODE_RETURN" ->
                    free_expr(prog, f, s) \o free_stmts(prog, f, s + 1) \o self
              [] t = "NODE_CALL" -> free_stmts(prog, f, s + 1) \o self
              [] t = "NODE_VAR_DECL" ->
                    \* free(node->next): the next node alone, nothing below or after it
                    (IF s + 1 <= Len(prog[f].sub) THEN << <<f, s + 1>> >> ELSE <<>>) \o self
              [] t = "NODE_VAR_ASSIGN" ->
                    free_expr(prog, f, s) \o free_stmts(prog, f, s + 1) \o self
              [] OTHER -> self

\* free_ast(function f): the next function first, then the body, then the node.
RECURSIVE free_funcs(_, _)
free_funcs(prog, f) ==
    IF f > Len(prog) THEN <<>>
    ELSE Only({ rest \o free_stmts(prog, f, 1) \o << <<f>> >> :
                  rest \in {free_funcs(prog, f + 1)} })

free_ast(prog) == free_funcs(prog, 1) \o << <<>> >>

\* compile(): free_ast(ast) and the release of the tokens and the input.
FreeAst ==
    /\ pc = "free"
    /\ freed' = free_ast(ast)
    /\ pc' = "compiled"
    /\ UNCHANGED <<token_pos, max_read, ast, err>>
    /\ UNCHANGED lexvars /\ UNCHANGED genvars /\ UNCHANGED runvars

(***************************************************************************)
(* The emitted text, assembled and run from `start` (main() hands the text *)
(* to the assembler; the claims speak of the exit status of the result).   *)
(* Stack addresses are 0 .. StackTop in steps of 8, code addresses are     *)
(* CodeBase + the line's index in out.                                     *)
(***************************************************************************)
StackTop == 8 * StackWords
CodeBase == StackTop + 1000
GarbageVals == {0, 99}    \* what a never-written stack slot may hold

LabelIndexes(text, name) == { i \in 1..Len(text) : text[i] = Label(name) }
CallTargets(text) == { text[i].s : i \in { j \in 1..Len(text) : text[j].op = "call %s" } }
LabelNames(text) == { text[i].s : i \in { j \in 1..Len(text) : text[j].op = "%s:" } }

\* The assembler accepts the text when every label is defined once and every
\* called label is defined.
Assembles(text) ==
    /\ \A n \in LabelNames(text) : Cardinality(LabelIndexes(text, n)) = 1
    /\ CallTargets(text) \subseteq LabelNames(text)

LabelIndex(text, name) == CHOOSE i \in LabelIndexes(text, name) : TRUE

Assemble ==
    /\ pc = "compiled"
    /\ IF Assembles(out)
       THEN /\ pc' = "run"
            /\ cpu' = [rip |-> LabelIndex(out, Start), rsp |-> StackTop, rbp |-> 0,
                       rax |-> 0, rdi |-> 0]
       ELSE pc' = "asm_error" /\ cpu' = cpu
    /\ UNCHANGED <<err, mem, exit_arg, frames>>
    /\ UNCHANGED lexvars /\ UNCHANGED parsevars /\ UNCHANGED genvars

Write(m, a, v) == [x \in (DOMAIN m) \cup {a} |-> IF x = a THEN v ELSE m[x]]
ReadVals(m, a) == IF a \in DOMAIN m THEN {m[a]} ELSE GarbageVals
IsCode(v) == v > CodeBase /\ v <= CodeBase + Len(out)

\* One instruction of the running program.
Exec ==
    /\ pc = "run"
    /\ LET i == out[cpu.rip]
           next == [cpu EXCEPT !.rip = @ + 1]
           fault == /\ pc' = "segv" /\ cpu' = cpu /\ mem' = mem
                    /\ exit_arg' = exit_arg /\ frames' = frames
           enter(c, m, fr) == /\ pc' = "run" /\ cpu' = c /\ mem' = m
                              /\ exit_arg' = exit_arg /\ frames' = fr
           go(c, m) == enter(c, m, frames)
       IN CASE i.op = "%s:" ->
                 enter(next, mem, Append(frames, [rsp |-> cpu.rsp, rbp |-> cpu.rbp]))
            [] i.op = "push rbp" ->
                 IF cpu.rsp - 8 < 0 THEN fault
                 ELSE go([next EXCEPT !.rsp = @ - 8], Write(mem, cpu.rsp - 8, cpu.rbp))
            [] i.op = "mov rbp, rsp" -> go([next EXCEPT !.rbp = cpu.rsp], mem)
            [] i.op = "mov rax, %d" -> go([next EXCEPT !.rax = i.n], mem)
            [] i.op = "mov [rbp - %d], rax" ->
                 IF cpu.rbp - i.n < 0 THEN fault
                 ELSE go(next, Write(mem, cpu.rbp - i.n, cpu.rax))
            [] i.op = "mov rax, [rbp - %d]" ->
                 IF cpu.rbp - i.n < 0 THEN fault
                 ELSE \E v \in ReadVals(mem, cpu.rbp - i.n) :
                         go([next EXCEPT !.rax = v], mem)
            [] i.op = "sub rsp, %d" -> go([next EXCEPT !.rsp = @ - i.n], mem)
            [] i.op = "mov rsp, rbp" -> go([next EXCEPT !.rsp = cpu.rbp], mem)
            [] i.op = "pop rbp" ->
                 IF cpu.rsp < 0 THEN fault
                 ELSE \E v \in ReadVals(mem, cpu.rsp) :
                         go([next EXCEPT !.rbp = v, !.rsp = @ + 8], mem)
            [] i.op = "call %s" ->
                 IF cpu.rsp - 8 < 0 THEN fault
                 ELSE go([cpu EXCEPT !.rip = LabelIndex(out, i.s), !.rsp = @ - 8],
                         Write(mem, cpu.rsp - 8, CodeBase + cpu.rip + 1))
            [] i.op = "ret" ->
                 IF cpu.rsp < 0 THEN fault
                 ELSE \E v \in ReadVals(mem, cpu.rsp) :
                         IF IsCode(v)
                         THEN enter([cpu EXCEPT !.rip = v - CodeBase, !.rsp = @ + 8], mem,
                                    SubSeq(frames, 1, Len(frames) - 1))
                         ELSE fault
            [] i.op = "mov rdi, rax" -> go([next EXCEPT !.rdi = cpu.rax], mem)
            [] i.op = "syscall" ->
                 IF cpu.rax = 60
                 THEN /\ pc' = "exited" /\ exit_arg' = cpu.rdi /\ cpu' = cpu
                      /\ mem' = mem /\ frames' = frames
                 ELSE fault
            [] OTHER -> fault
    /\ UNCHANGED err
    /\ UNCHANGED lexvars /\ UNCHANGED parsevars /\ UNCHANGED genvars

Next ==
    \/ Tokenize \/ Parse
    \/ GenHeader \/ GenFunction \/ GenDecl \/ GenFrame \/ GenStmt
    \/ GenNextFunction \/ GenTrampoline \/ FreeAst
    \/ Assemble \/ Exec

Spec == Init /\ [][Next]_vars

(***************************************************************************)
(* The lexer alone, one next_token call per step, on inputs made of a few  *)
(* chunks (keywords, an identifier, a number, a space, punctuators and a   *)
(* character no branch of next_token consumes).                            *)
(***************************************************************************)
Chunks == { KwInt, KwReturn, <<"a">>, <<"7">>, <<" ">>, <<";">>, <<"(">>, <<"=">>,
            <<"@">> }

RECURSIVE ChunkInputs(_)
ChunkInputs(n) ==
    IF n = 0 THEN {<<>>}
    ELSE { c \o rest : c \in Chunks, rest \in ChunkInputs(n - 1) }

LexInputs == UNION { ChunkInputs(n) : n \in 0..MaxChunks }

InitLex == pc = "lex" /\ input \in LexInputs /\ InitRest

\* One iteration of tokenize()'s loop: tokens[token_count++] = next_token().
\* The array holds input_size tokens; a write past it is a heap overflow,
\* after which the process either goes on or dies.
LexStep ==
    /\ pc = "lex"
    /\ Len(tokens) < Len(input) + MaxOverrun
    /\ LET r == next_token(input, pos)
           after == IF r.tok.type = "TOK_EOF" THEN "lexed" ELSE "lex"
       IN /\ pos' = r.pos
          /\ IF Len(tokens) < Len(input)
             THEN /\ tokens' = Append(tokens, r.tok)
                  /\ heap_ok' = heap_ok
                  /\ pc' = after
             ELSE /\ heap_ok' = FALSE
                  /\ \/ tokens' = Append(tokens, r.tok) /\ pc' = after
                     \/ tokens' = tokens /\ pc' = "crashed"
    /\ UNCHANGED <<input, err>>
    /\ UNCHANGED parsevars /\ UNCHANGED genvars /\ UNCHANGED runvars

NextLex == LexStep

SpecLex == InitLex /\ [][NextLex]_vars

(***************************************************************************)
(* The parser on malformed input: the text of a program with one `;` or    *)
(* one `}` left out.                                                       *)
(***************************************************************************)
RemoveAt(seq, i) == SubSeq(seq, 1, i - 1) \o SubSeq(seq, i + 1, Len(seq))

BrokenLexemes(ls) ==
    { RemoveAt(ls, i) : i \in { j \in 1..Len(ls) : ls[j] \in { <<";">>, <<"}">> } } }

BrokenSources ==
    UNION { { Spaced(b) : b \in BrokenLexemes(ProgramLexemes(prog)) } : prog \in Programs }

InitParse == pc = "start" /\ input \in BrokenSources /\ InitRest

NextParse == Tokenize \/ Parse

SpecParse == InitParse /\ [][NextParse]_vars

(***************************************************************************)
(* Properties.                                                             *)
(***************************************************************************)
BadEnds == {"exit1", "crashed", "asm_error", "segv"}

AtDecl == pc = "gen_decl" /\ gsi <= Len(ast[gfi].sub)
AtStmt == pc = "gen_stmt" /\ gsi <= Len(ast[gfi].sub)
CurStmt == ast[gfi].sub[gsi]

RetLit(v) == << Func(Main, << Return(Num(v)) >>) >>

\* C1: a program that is only `int main() { return <literal>; }` compiles,
\* and its executable calls main, has the literal in rax when main returns,
\* moves it to rdi and exits through syscall 60 with the literal as argument.
C1_ReturnLiteralIsExitArgument ==
    \A v \in LitVals :
        input = SourceOf(RetLit(v)) =>
            /\ pc \notin BadEnds
            /\ (pc = "run" /\ out[cpu.rip] = L0("mov rdi, rax")) =>
                   (cpu.rax = v /\ out[cpu.rip - 1] = Call(Main))
            /\ (pc = "run" /\ out[cpu.rip] = L0("syscall")) =>
                   (cpu.rax = 60 /\ cpu.rdi = v)
            /\ (pc = "exited") => exit_arg = v

C1_Witness ==
    \E v \in LitVals :
        input = SourceOf(RetLit(v)) /\ pc = "exited" /\ exit_arg = v /\ cpu.rdi = v

HelperMain(n, x) ==
    << Func(FnF, << Return(Num(n)) >>),
       Func(Main, << Decl(x, << CallNode(FnF) >>), Return(Var(x)) >>) >>

CallInitDecl ==
    /\ AtDecl
    /\ CurStmt.type = "NODE_VAR_DECL"
    /\ CurStmt.sub # <<>>
    /\ CurStmt.sub[1].type = "NODE_CALL"
    /\ ~InScope(scope, CurStmt.name)

\* C2: the code of `int x = f();` is `call f` immediately followed by the
\* store of rax to the slot just given to x; and the program of a helper that
\* returns n and a main that declares x = helper() and returns x exits with n.
C2_CallInitializerStoresResult ==
    /\ [][CallInitDecl =>
            /\ get_variable_offset(scope', CurStmt.name) = stack_size + 8
            /\ out' = out \o << Call(CurStmt.sub[1].name),
                                Store(get_variable_offset(scope', CurStmt.name)) >>]_vars
    /\ [](\A n \in LitVals, x \in VarNames :
            input = SourceOf(HelperMain(n, x)) =>
                /\ pc \notin BadEnds
                /\ (pc = "exited") => exit_arg = n)

C2_Witness ==
    \E n \in LitVals, x \in VarNames :
        /\ input = SourceOf(HelperMain(n, x))
        /\ pc = "exited" /\ exit_arg = n
        /\ \E i \in 1..(Len(out) - 1) : out[i] = Call(FnF) /\ out[i + 1] = Store(8)

TwoDecl(n, a, b) ==
    << Func(Main, << Decl(a, << Num(n) >>), Decl(b, << Var(a) >>), Return(Var(b)) >>) >>

SlotOffsets == { 8 * k : k \in 1..StackWords }

TwoDeclText(n, oa, ob) ==
    Header \o Prologue(Main)
        \o << MovRaxImm(n), Store(oa), Load(oa), Store(ob), SubRsp(16), Load(ob) >>
        \o Epilogue(16) \o Trampoline \o Footer

\* C3: `int a = n; int b = a; return b;` in main exits with n: n is stored to
\* a's slot, copied through rax to the different slot of b, and b's slot is
\* loaded for the return.
C3_CopyThroughVariables ==
    \A n \in LitVals, a \in VarNames : \A b \in VarNames \ {a} :
        input = SourceOf(TwoDecl(n, a, b)) =>
            /\ pc \notin BadEnds
            /\ (pc \in {"compiled", "run", "exited"}) =>
                   \E oa \in SlotOffsets : \E ob \in SlotOffsets \ {oa} :
                       out = TwoDeclText(n, oa, ob)
            /\ (pc = "exited") => exit_arg = n

C3_Witness ==
    \E n \in LitVals, a \in VarNames : \E b \in VarNames \ {a} :
        /\ input = SourceOf(TwoDecl(n, a, b))
        /\ pc = "exited" /\ exit_arg = n
        /\ mem[StackTop - 16 - 8] = n /\ mem[StackTop - 16 - 16] = n

DupDecl == AtDecl /\ CurStmt.type = "NODE_VAR_DECL" /\ InScope(scope, CurStmt.name)

DeclIdx(body) == { i \in 1..Len(body) : body[i].type = "NODE_VAR_DECL" }
DistinctDecls(body) ==
    \A i \in DeclIdx(body), j \in DeclIdx(body) : body[i].name = body[j].name => i = j

\* C4: registering a declaration whose name the function has already
\* declared stops the compilation with the duplicate-variable error, with or
\* without initializers; nothing is added to the scope, which holds each name
\* once, and no function with a repeated name gets past its declarations.
C4_DuplicateDeclarationFails ==
    /\ [][DupDecl =>
            /\ pc' = "exit1" /\ err' = "Variable already exists"
            /\ scope' = scope /\ stack_size' = stack_size /\ out' = out]_vars
    /\ [](\A i \in 1..Len(scope), j \in 1..Len(scope) :
            scope[i].name = scope[j].name => i = j)
    /\ [](pc = "gen_stmt" => DistinctDecls(ast[gfi].sub))

C4_Witness ==
    /\ pc = "exit1" /\ err = "Variable already exists"
    /\ gsi = 2
    /\ ast[gfi].sub[1].sub = <<>> /\ ast[gfi].sub[2].sub # <<>>
    /\ Len(scope) = 1 /\ scope[1].name = ast[gfi].sub[2].name

UndefInStmt ==
    /\ AtStmt
    /\ \/ /\ CurStmt.type = "NODE_RETURN"
          /\ CurStmt.sub[1].type = "NODE_VAR_REF"
          /\ ~InScope(scope, CurStmt.sub[1].name)
       \/ /\ CurStmt.type = "NODE_VAR_ASSIGN"
          /\ InScope(scope, CurStmt.name)
          /\ CurStmt.sub[1].type = "NODE_VAR_REF"
          /\ ~InScope(scope, CurStmt.sub[1].name)

UndefInDecl ==
    /\ AtDecl
    /\ CurStmt.type = "NODE_VAR_DECL"
    /\ ~InScope(scope, CurStmt.name)
    /\ CurStmt.sub # <<>>
    /\ CurStmt.sub[1].type = "NODE_VAR_REF"
    /\ ~InScope(Append(scope, Symbol(CurStmt.name, 0)), CurStmt.sub[1].name)

\* C5: a variable reference in a return expression, on the right of an
\* assignment or in a declaration's initializer whose name is not in the
\* function's scope stops the compilation with the undefined-variable error,
\* and no line is emitted for it.
C5_UndefinedReferenceFails ==
    [][(UndefInStmt \/ UndefInDecl) =>
          /\ pc' = "exit1" /\ err' = "Undefined variable"
          /\ out' = out]_vars

C5_Witness ==
    /\ pc = "exit1" /\ err = "Undefined variable"
    /\ ast[gfi].sub[gsi].type = "NODE_RETURN"
    /\ ~InScope(scope, ast[gfi].sub[gsi].sub[1].name)
    /\ out[Len(out)].op # "mov rax, [rbp - %d]"

\* The names declared by the first n statements of a body, in source order.
DeclNamesUpTo(body, n) ==
    LET ds == SelectSeq(SubSeq(body, 1, n), LAMBDA st : st.type = "NODE_VAR_DECL")
    IN [k \in 1..Len(ds) |-> ds[k].name]

ScopeNames == [k \in 1..Len(scope) |-> scope[k].name]

\* C6: the k-th variable a function declares has stack_offset 8*k, so the
\* offsets of a function are distinct, stack_size is 8 times the number of
\* declarations registered, and every function starts from an empty scope.
C6_StackOffsetsAreEightTimesIndex ==
    /\ \A k \in 1..Len(scope) : scope[k].stack_offset = 8 * k
    /\ stack_size = 8 * Len(scope)
    /\ (pc = "gen_decl") => ScopeNames = DeclNamesUpTo(ast[gfi].sub, gsi - 1)
    /\ (pc = "gen_stmt") =>
           /\ ScopeNames = DeclNamesUpTo(ast[gfi].sub, Len(ast[gfi].sub))
           /\ stack_size = 8 * Cardinality(DeclIdx(ast[gfi].sub))

C6_Witness ==
    /\ pc = "gen_stmt" /\ gfi = 2
    /\ Cardinality(DeclIdx(ast[1].sub)) = 2
    /\ Len(scope) = 1 /\ scope[1].stack_offset = 8 /\ stack_size = 8

\* C7: a text that lacks a function's closing brace or a statement's
\* semicolon ends in a parser error and exit 1 before any Program node exists;
\* no token at an index >= token_count is read and nothing is generated.
C7_MissingTokenIsParseError ==
    /\ max_read < Len(tokens)
    /\ (pc \notin {"start", "parse"}) =>
           /\ pc = "exit1"
           /\ err \in {"Expected token", "Expected statement", "Unexpected end of input",
                       "Expected function name"}
           /\ ast = <<>> /\ out = <<>>

C7_Witness ==
    /\ pc = "exit1" /\ err # ""
    /\ max_read = Len(tokens) - 1
    /\ tokens[Len(tokens)].type = "TOK_EOF"
    /\ \E i \in 1..Len(tokens) : tokens[i].type = "TOK_SEMICOLON"
    /\ \A i \in 1..Len(tokens) : tokens[i].type # "TOK_RBRACE"

\* C8: tokenize terminates on every input: each call of next_token either
\* moves the cursor forward (an unrecognised character included, which
\* becomes one unknown token) or yields the end-of-input token that ends the
\* loop, and the array never holds more tokens than characters plus one.
C8_TokenizeTerminates ==
    /\ [][pc = "lex" =>
            \/ pos' > pos
            \/ next_token(input, pos).tok.type = "TOK_EOF"]_vars
    /\ [](Len(tokens) <= Len(input) + 1)

PhaseOrder == << "header", "prologue", "init", "frame", "stmt", "tramp", "footer" >>
PhaseKey(tag) == 10 * tag[1] + (CHOOSE k \in 1..Len(PhaseOrder) : PhaseOrder[k] = tag[2])

\* The lines of out emitted for function fi in phase ph, in order.
PhaseLines(fi, ph) ==
    LET idx == SelectSeq([i \in 1..Len(out) |-> i], LAMBDA i : phases[i] = <<fi, ph>>)
    IN [k \in 1..Len(idx) |-> out[idx[k]]]

LabelsOf(text) ==
    LET ls == SelectSeq(text, LAMBDA l : l.op = "%s:")
    IN [k \in 1..Len(ls) |-> ls[k].s]

\* C10: the text is the three header lines, then for every function in
\* source order its label and prologue, the code of its declarations'
\* initializers, at most one `sub rsp` and the code of its statements, then
\* the start: routine, and `segment readable writable` as the last line.
C10_EmissionOrder ==
    /\ Len(phases) = Len(out)
    /\ \A i \in 1..Len(out), j \in 1..Len(out) :
           i < j => PhaseKey(phases[i]) <= PhaseKey(phases[j])
    /\ (pc \in {"gen_func", "gen_decl", "gen_stmt", "compiled"} \/ out # <<>>) =>
           SubSeq(out, 1, 3) = << L0("format ELF64 executable 3"),
                                  L0("entry start"),
                                  L0("segment readable executable") >>
    /\ (pc = "compiled") =>
           /\ LabelsOf(out) = [f \in 1..Len(ast) |-> ast[f].name] \o << Start >>
           /\ SubSeq(out, Len(out) - 5, Len(out)) =
                  << Label(Start), Call(Main), L0("mov rdi, rax"), MovRaxImm(60),
                     L0("syscall"), L0("segment readable writable") >>
           /\ \A f \in 1..Len(ast) :
                  /\ PhaseLines(f, "prologue") =
                         << Label(ast[f].name), L0("push rbp"), L0("mov rbp, rsp") >>
                  /\ Len(PhaseLines(f, "frame")) <= 1
                  /\ \A l \in { PhaseLines(f, "frame")[k] : k \in 1..Len(PhaseLines(f, "frame")) } :
                         l.op = "sub rsp, %d"
                  /\ \A l \in { PhaseLines(f, "init")[k] : k \in 1..Len(PhaseLines(f, "init")) } :
                         l.op \in {"mov rax, %d", "mov rax, [rbp - %d]", "call %s",
                                   "mov [rbp - %d], rax"}
                  /\ \A l \in { PhaseLines(f, "stmt")[k] : k \in 1..Len(PhaseLines(f, "stmt")) } :
                         l.op \notin {"%s:", "sub rsp, %d", "push rbp", "mov rbp, rsp"}

C10_Witness ==
    /\ pc = "compiled" /\ Len(ast) = 2
    /\ \A f \in 1..2 : /\ PhaseLines(f, "init") # <<>>
                       /\ PhaseLines(f, "frame") # <<>>
                       /\ PhaseLines(f, "stmt") # <<>>

\* Where the token at the cursor starts: the first position from pos on that
\* holds no white space (input_size when only white space is left).
TokStart ==
    CHOOSE q \in pos..Len(input) :
        /\ \A j \in (pos + 1)..q : input[j] \in Spaces
        /\ q = Len(input) \/ input[q + 1] \notin Spaces

\* The characters from position q on spell kw and no letter or digit follows.
KeywordAt(q, kw) ==
    /\ q + Len(kw) <= Len(input)
    /\ SubSeq(input, q + 1, q + Len(kw)) = kw
    /\ q + Len(kw) = Len(input) \/ input[q + Len(kw) + 1] \notin (Letters \cup Digits)

\* The end of the longest run of letters and digits that starts at q.
RunEnd(q) ==
    CHOOSE e \in q..Len(input) :
        /\ \A j \in (q + 1)..e : input[j] \in (Letters \cup Digits)
        /\ e = Len(input) \/ input[e + 1] \notin (Letters \cup Digits)

\* C11: next_token yields the int (return) keyword exactly when the 3 (6)
\* characters at the cursor spell it and the next character is no letter or
\* digit; any other text that starts with a letter becomes one identifier
\* token holding the whole run of letters and digits, with the cursor after it.
C11_KeywordsNeedBoundary ==
    [][(pc = "lex" /\ TokStart < Len(input)) =>
          LET q == TokStart
              r == next_token(input, pos)
          IN /\ (r.tok.type = "TOK_INT") <=> KeywordAt(q, KwInt)
             /\ (r.tok.type = "TOK_RETURN") <=> KeywordAt(q, KwReturn)
             /\ KeywordAt(q, KwInt) => pos' = q + 3
             /\ KeywordAt(q, KwReturn) => pos' = q + 6
             /\ (input[q + 1] \in Letters /\ ~KeywordAt(q, KwInt) /\ ~KeywordAt(q, KwReturn)) =>
                    /\ r.tok = Token("TOK_IDENTIFIER", SubSeq(input, q + 1, RunEnd(q)))
                    /\ pos' = RunEnd(q)
             /\ (tokens' # tokens) => tokens' = Append(tokens, r.tok)]_vars

C11_Witness ==
    /\ pc = "lexed"
    /\ input = KwInt \o <<"7">> \o <<";">>
    /\ tokens[1] = Token("TOK_IDENTIFIER", KwInt \o <<"7">>)
    /\ tokens[2].type = "TOK_SEMICOLON"

(***************************************************************************)
(* The parser on statements that begin with an identifier: main's body is  *)
(* the identifier `a` followed by a few lexemes, whatever they are.        *)
(***************************************************************************)
TailLexemes == { <<"=">>, <<"(">>, <<")">>, <<";">>, <<"5">>, <<"b">> }

RECURSIVE Tails(_)
Tails(n) ==
    IF n = 0 THEN {<<>>}
    ELSE { <<l>> \o rest : l \in TailLexemes, rest \in Tails(n - 1) }

StmtSources ==
    { Spaced(<< KwInt, Main, <<"(">>, <<")">>, <<"{">>, VarA >> \o t \o << <<"}">> >>) :
        t \in UNION { Tails(n) : n \in 0..MaxTail } }

InitStmt == pc = "start" /\ input \in StmtSources /\ InitRest

NextStmt == Tokenize \/ Parse

SpecStmt == InitStmt /\ [][NextStmt]_vars

\* The parser state at the first statement of the first function's body.
AtFirstStmt == [pos |-> 5, err |-> "", rd |-> -1]

\* C12: for a statement that begins with an identifier, parse_stmt builds a
\* VarAssign node iff the next token is `=`; otherwise it parses a call,
\* which succeeds only when `(`, `)` follow the identifier; in both cases the
\* statement is accepted only if `;` comes right after it.
C12_IdentifierStatementPeek ==
    (pc # "start" /\ TokAt(tokens, 5).type = "TOK_IDENTIFIER") =>
        LET r == parse_stmt(tokens, AtFirstStmt)
            ty(i) == TokAt(tokens, i).type
            ok == r.p.err = ""
        IN /\ (ok /\ r.node.type = "NODE_VAR_ASSIGN") => ty(6) = "TOK_EQUAL"
           /\ (ty(6) = "TOK_EQUAL") =>
                  /\ ok => (r.node.type = "NODE_VAR_ASSIGN" /\ r.node.name = tokens[6].value)
                  /\ ok <=> \/ ty(7) \in {"TOK_NUMBER", "TOK_IDENTIFIER"} /\ ty(8) = "TOK_SEMICOLON"
                            \/ /\ ty(7) = "TOK_IDENTIFIER" /\ ty(8) = "TOK_LPAREN"
                               /\ ty(9) = "TOK_RPAREN" /\ ty(10) = "TOK_SEMICOLON"
           /\ (ty(6) # "TOK_EQUAL") =>
                  /\ ok <=> (ty(6) = "TOK_LPAREN" /\ ty(7) = "TOK_RPAREN"
                                /\ ty(8) = "TOK_SEMICOLON")
                  /\ ok => (r.node = Node("NODE_CALL", tokens[6].value, 0, <<>>)
                                /\ r.p.pos = 9)
           /\ ok => ty(r.p.pos - 1) = "TOK_SEMICOLON"
           /\ (pc = "gen") => (ok /\ ast[1].sub[1] = r.node)
           /\ (pc = "exit1" /\ ~ok) => err = r.p.err

C12_Witness ==
    /\ pc = "gen"
    /\ TokAt(tokens, 6).type = "TOK_EQUAL"
    /\ ast[1].sub = << Assign(VarA, CallNode(VarB)) >>

NDecls(f) == Cardinality(DeclIdx(ast[f].sub))

\* The indexes of the lines of out emitted for function f, and those among
\* them that adjust the stack pointer.
LinesOfFunc(f) == { i \in 1..Len(out) : phases[i][1] = f }
SubRspOfFunc(f) == { i \in LinesOfFunc(f) : out[i].op = "sub rsp, %d" }

\* The functions whose declarations have all been scanned.
FrameDone(f) ==
    \/ pc \in {"gen_func", "gen_decl", "gen_stmt"} /\ f < gfi
    \/ pc = "gen_stmt" /\ f = gfi
    \/ pc \in {"compiled", "run", "exited", "segv", "asm_error"}

\* C13: a function's text has `sub rsp, N` at most once, exactly when the
\* function declares a variable, with N = 8 * (number of declarations), after
\* all the code of its initializers and before the code of its statements;
\* the second pass emits nothing for a declaration.
C13_SubRspOncePerFunction ==
    /\ [](\A f \in 1..Len(ast) :
            /\ Cardinality(SubRspOfFunc(f)) <= 1
            /\ FrameDone(f) =>
                  /\ (SubRspOfFunc(f) # {}) <=> (NDecls(f) > 0)
                  /\ \A i \in SubRspOfFunc(f) :
                        /\ out[i] = SubRsp(8 * NDecls(f))
                        /\ \A j \in LinesOfFunc(f) :
                              /\ (phases[j][2] \in {"prologue", "init"}) => j < i
                              /\ (phases[j][2] = "stmt") => i < j)
    /\ [][(AtStmt /\ CurStmt.type = "NODE_VAR_DECL") =>
              (out' = out /\ err' = "" /\ pc' = "gen_stmt")]_vars

C13_Witness ==
    /\ pc = "compiled" /\ Len(ast) = 2
    /\ NDecls(1) = 2 /\ NDecls(2) = 1
    /\ \E i \in SubRspOfFunc(1) : out[i] = SubRsp(16) /\ phases[i - 1][2] = "init"
    /\ \E i \in SubRspOfFunc(2) : out[i] = SubRsp(8) /\ phases[i + 1][2] = "stmt"

PopRbpOfFunc(f) == { i \in LinesOfFunc(f) : out[i].op = "pop rbp" }
ReturnIdx(body) == { i \in 1..Len(body) : body[i].type = "NODE_RETURN" }

\* C14: when the running program is at a `ret`, rsp and rbp are what they
\* were when the function was entered; in the text every Return has its
\* `pop rbp` followed by `ret`, and `mov rsp, rbp` stands before the `pop rbp`
\* iff the function declares a variable.
C14_StackBalancedAtRet ==
    /\ (pc = "run" /\ out[cpu.rip].op = "ret") =>
           /\ frames # <<>>
           /\ cpu.rsp = frames[Len(frames)].rsp
           /\ cpu.rbp = frames[Len(frames)].rbp
    /\ (pc = "compiled") =>
           \A f \in 1..Len(ast) :
               /\ Cardinality(PopRbpOfFunc(f)) = Cardinality(ReturnIdx(ast[f].sub))
               /\ \A i \in PopRbpOfFunc(f) :
                     /\ out[i + 1].op = "ret"
                     /\ (out[i - 1].op = "mov rsp, rbp") <=> (NDecls(f) > 0)

C14_Witness ==
    /\ pc = "run" /\ out[cpu.rip].op = "ret"
    /\ Len(frames) = 3
    /\ \E f \in 1..Len(ast) : cpu.rip \in LinesOfFunc(f) /\ NDecls(f) = 2
    /\ cpu.rsp = frames[3].rsp /\ cpu.rsp < frames[2].rsp

Declared(f) == { ast[f].sub[i].name : i \in DeclIdx(ast[f].sub) }

\* C15: the target of an assignment, a variable on its right-hand side and a
\* variable in a return are found iff some declaration of the function body
\* declares the name, before or after the statement in the text.
C15_LookupSeesWholeBody ==
    [][AtStmt =>
          LET D == Declared(gfi)
              st == CurStmt
              found == err' = "" /\ pc' = "gen_stmt"
              undefined == err' = "Undefined variable" /\ pc' = "exit1"
          IN /\ (st.type = "NODE_RETURN" /\ st.sub[1].type = "NODE_VAR_REF") =>
                    /\ found <=> st.sub[1].name \in D
                    /\ undefined <=> st.sub[1].name \notin D
             /\ (st.type = "NODE_VAR_ASSIGN") =>
                    /\ found <=> /\ st.name \in D
                                 /\ st.sub[1].type = "NODE_VAR_REF" => st.sub[1].name \in D
                    /\ undefined <=> ~found]_vars

C15_Witness ==
    /\ pc = "exited" /\ exit_arg = 5
    /\ ast[1].sub = << Assign(VarA, Num(5)), Decl(VarA, <<>>), Return(Var(VarA)) >>

(***************************************************************************)
(* The whole pipeline on well-formed and on malformed texts alike.         *)
(***************************************************************************)
InitAll == pc = "start" /\ input \in (Sources \cup BrokenSources) /\ InitRest

SpecAll == InitAll /\ [][Next]_vars

ParserErrors ==
    { "Expected token", "Expected function name", "Expected statement",
      "Unexpected end of input", "Expected number, variable or function call",
      "Expected variable name", "Expected identifier for function call" }

GeneratorErrors ==
    { "Variable already exists", "Undefined variable",
      "Invalid initialization expression type", "Return statement has no expression",
      "Invalid return expression type", "Invalid assignment expression type" }

EndOfText ==
    << Label(Start), Call(Main), L0("mov rdi, rax"), MovRaxImm(60), L0("syscall"),
       L0("segment readable writable") >>

\* C16: a run ends with the whole text emitted or stops at its first error
\* with nothing emitted from then on: nothing at all is emitted before or at
\* a parser error, and the text left by a generator error holds neither the
\* start: routine nor the final `segment readable writable` line.
C16_AllOrStopAtFirstError ==
    /\ []((pc \in {"start", "parse", "crashed"}) => (out = <<>> /\ err = ""))
    /\ []((pc = "exit1") =>
            /\ err \in ParserErrors \cup GeneratorErrors
            /\ (err \in ParserErrors) => out = <<>>
            /\ \A i \in 1..Len(out) :
                  /\ out[i] \notin { EndOfText[k] : k \in 1..Len(EndOfText) }
                  /\ phases[i][2] \notin {"tramp", "footer"})
    /\ []((pc \in {"compiled", "asm_error", "run", "exited", "segv"}) =>
            /\ err = ""
            /\ Len(out) >= 9
            /\ SubSeq(out, Len(out) - 5, Len(out)) = EndOfText)
    /\ [][(err' # "") => (err = "" /\ pc' = "exit1" /\ out' = out)]_vars
    /\ [][pc # "exit1"]_vars

C16_Witness ==
    /\ pc = "exit1" /\ err = "Undefined variable"
    /\ gfi = 2
    /\ \E i \in 1..Len(out) : out[i].op = "ret"
    /\ out[Len(out)].op \in {"sub rsp, %d", "mov [rbp - %d], rax"}

\* Every node of the tree the parser built.
TreeNodes ==
    { <<>> } \cup { <<f>> : f \in 1..Len(ast) }
        \cup UNION { { <<f, s>> : s \in 1..Len(ast[f].sub) } : f \in 1..Len(ast) }
        \cup UNION { { <<f, s, 1>> : s \in { k \in 1..Len(ast[f].sub) : ast[f].sub[k].sub # <<>> } } :
                       f \in 1..Len(ast) }

TimesFreed(n) == Cardinality({ i \in 1..Len(freed) : freed[i] = n })

\* C17: after a successful compile every node of the parsed tree (functions,
\* statements, expressions, initializers included) has been released exactly
\* once.
C17_EveryNodeFreedOnce ==
    (pc \in {"compiled", "asm_error", "run", "exited", "segv"}) =>
        \A n \in TreeNodes : TimesFreed(n) = 1

CallAfterInit(v, w) ==
    << Func(FnF, << Return(Num(w)) >>),
       Func(Main, << Decl(VarA, << Num(v) >>), Decl(VarB, << CallNode(FnF) >>),
                     Return(Var(VarA)) >>) >>

\* C18: while the initializers of a function run, a `call` emitted for an
\* initializer never writes its return address over a slot that an earlier
\* initializer of the same function has stored to; so for
\* int f() { return 7; } int main() { int a = 5; int b = f(); return a; }
\* the exit status is 5.
C18_CallKeepsInitializedSlots ==
    /\ (pc = "run" /\ out[cpu.rip].op = "call %s" /\ phases[cpu.rip][2] = "init") =>
           \A j \in 1..(cpu.rip - 1) :
               (phases[j] = phases[cpu.rip] /\ out[j].op = "mov [rbp - %d], rax") =>
                   cpu.rbp - out[j].n # cpu.rsp - 8
    /\ \A v \in LitVals, w \in LitVals :
           (input = SourceOf(CallAfterInit(v, w)) /\ pc = "exited") => exit_arg = v

\* The statements of a body executed one by one in the order of the text:
\* the set holding the value returned, or the empty set when a variable is
\* used before it is declared and given a value, when a call is met, or when
\* no return is.
ValueOf(e, env) ==
    CASE e.type = "NODE_NUMBER" -> {e.value}
      [] e.type = "NODE_VAR_REF" -> IF e.name \in DOMAIN env THEN env[e.name] ELSE {}
      [] OTHER -> {}

Bind(env, name, v) == [x \in (DOMAIN env) \cup {name} |-> IF x = name THEN v ELSE env[x]]

RECURSIVE InSourceOrder(_, _, _)
InSourceOrder(body, i, env) ==
    IF i > Len(body) THEN {}
    ELSE LET st == body[i] IN
         CASE st.type = "NODE_RETURN" -> ValueOf(st.sub[1], env)
           [] st.type = "NODE_VAR_DECL" ->
                Only({ InSourceOrder(body, i + 1, Bind(env, st.name, v)) :
                         v \in { IF st.sub = <<>> THEN {} ELSE ValueOf(st.sub[1], env) } })
           [] st.type = "NODE_VAR_ASSIGN" ->
                IF st.name \notin DOMAIN env THEN {}
                ELSE Only({ InSourceOrder(body, i + 1, Bind(env, st.name, v)) :
                              v \in { ValueOf(st.sub[1], env) } })
           [] OTHER -> {}

\* C19: running the code of an accepted body returns what the statements
\* return when executed one by one in source order; an assignment that
\* stands before an initialised declaration takes effect before that
\* initializer (int a = 5; a = 7; int b = a; return b; returns 7).
C19_SourceOrderSemantics ==
    (pc = "exited" /\ Len(ast) = 1 /\ ast[1].name = Main) =>
        \A v \in InSourceOrder(ast[1].sub, 1, <<>>) : exit_arg = v

FuncLinesSeq(f) ==
    LET idx == SelectSeq([i \in 1..Len(out) |-> i], LAMBDA i : phases[i][1] = f)
    IN [k \in 1..Len(idx) |-> out[idx[k]]]

\* C20: the code of every function of an accepted program ends with
\* `pop rbp`, `ret`, and the running program never moves from an instruction
\* into the label that follows it: a label is reached only by a call (start:
\* by the loader).
C20_NoFallThrough ==
    /\ []((pc = "compiled") =>
            \A f \in 1..Len(ast) :
                LET ls == FuncLinesSeq(f) IN
                /\ Len(ls) >= 2
                /\ ls[Len(ls) - 1] = L0("pop rbp")
                /\ ls[Len(ls)] = L0("ret"))
    /\ [][(pc = "run" /\ pc' = "run" /\ out[cpu'.rip].op = "%s:") =>
              out[cpu.rip].op = "call %s"]_vars

\* C21: during tokenize the number of tokens written into the token array
\* never exceeds the input_size entries it was allocated with, on every
\* input (the empty input and inputs made only of adjacent one-character
\* tokens included): no write lands past the array, and the final
\* end-of-input token fits.
C21_TokensFitCapacity ==
    pc \in {"lex", "lexed", "crashed"} =>
        /\ heap_ok
        /\ Len(tokens) <= Len(input)

\* C22: in every successfully emitted assembly text each `call X` (from a
\* call statement, a call initializer or the trampoline's `call main`)
\* names a label that the same text holds exactly once; a program without
\* `main`, with a call of an undefined function or with two functions of
\* one name is rejected and never reaches a complete text.  (Runs whose
\* token array was overrun are left aside: they are undefined from there.)
C22_CallsNameOneLabel ==
    (pc = "compiled" /\ heap_ok) =>
        \A X \in CallTargets(out) : Cardinality(LabelIndexes(out, X)) = 1

=============================================================================
